---- MODULE Spec2Model ----
(***************************************************************************)
(* HashMap<KeyType, ValueType, Hash> of src/hash_map.h: an open-addressing *)
(* index table (table_) over a doubly linked list of key/value pairs       *)
(* (key_value_pairs_), with linear probing, eager rebuild of the table     *)
(* before an insertion and a local repair of the probe run on erase.       *)
(*                                                                         *)
(* The list nodes live in one heap shared by all containers: a slot of the *)
(* table holds a list iterator, modelled as the address of the node.       *)
(***************************************************************************)
EXTENDS Integers, Sequences, FiniteSets, TLC

\* ------------------------------------------------------------------ bounds
\* Keys 1..MaxKey; the table is not grown past MaxTableSize.
MaxKey == 3
MaxTableSize == 6
\* The same, where two containers are explored together.
MaxPairKey == 2
MaxPairTableSize == 4

Keys == 1..MaxKey
PairKeys == 1..MaxPairKey
\* ValueType is a two-valued type; ValueType() is 0.  The container never
\* inspects a value.
DefaultValue == 0
Vals == {DefaultValue, DefaultValue + 1}
\* The HashMap objects of the program.
Maps == {"a", "b"}
\* The node addresses: an arena of MaxKey addresses for the list of each
\* container and one for the list of the local copy of operator=.
Addr == 1..(3 * MaxKey)
Arena(this) ==
  CASE this = "a" -> 1..MaxKey
    [] this = "b" -> (MaxKey + 1)..(2 * MaxKey)
    [] OTHER -> (2 * MaxKey + 1)..(3 * MaxKey)

\* ------------------------------------------------------- program constants
\* maxLoadFactor_ = 0.75 as the fraction MaxLoadNum / MaxLoadDen
MaxLoadNum == 3
MaxLoadDen == 4
initialSize_ == 3

\* ------------------------------------------------------------------- state
VARIABLES
  heap,   \* Addr -> the pair stored in the list node at that address, or Free
  maps,   \* Maps -> the data members of that HashMap object (and `this`,
          \*         which object it is)
  abs,    \* Maps -> the abstract content: the sequence of <<key, value>>
          \*         in insertion order (specification-side history)
  ub      \* TRUE once a call has destroyed or written a node it does not own

vars == <<heap, maps, abs, ub>>

Free == [first |-> 0, second |-> 0]
KeyValuePair == [first : Keys, second : Vals]

Range(s) == {s[i] : i \in DOMAIN s}

\* The element of a one-element set.  The({e : x \in {v}}) is e with x naming
\* the value of v: a local of the code that is computed once and then used.
The(S) == CHOOSE x \in S : TRUE

\* The hash functors a container may be constructed with.
Hashers == {"identity", "constant", "halving"}
hasher_(h, key) ==
  CASE h = "identity" -> key
    [] h = "constant" -> 0
    [] OTHER -> (key + 1) \div 2

\* ------------------------------------------------------------ TableElement
NoIter == 0
EmptyElement == [is_used |-> FALSE, is_erased |-> FALSE, iter |-> NoIter, hash |-> 0]
\* Mutant: ErasedElement() forgets to set is_erased.
ErasedElementUnmarked ==
  [is_used |-> FALSE, is_erased |-> FALSE, iter |-> NoIter, hash |-> 0]

ErasedElement == [is_used |-> FALSE, is_erased |-> TRUE, iter |-> NoIter, hash |-> 0]
TableElement(iter) == [is_used |-> TRUE, is_erased |-> FALSE, iter |-> iter, hash |-> 0]

\* The iterators of m's table whose node has been freed, and what a call may
\* read through them: any pair at all (a read of freed memory).
Dangling(m) ==
  {x \in Addr : heap[x] = Free
      /\ \E i \in DOMAIN m.table : m.table[i].is_used /\ m.table[i].iter = x}
Garbage(m) == [Dangling(m) -> KeyValuePair]

\* *iter: the node at that address in heap h when it is alive, else garbage g.
Deref(h, g, iter) ==
  IF h[iter] # Free THEN h[iter]
  ELSE IF iter \in DOMAIN g THEN g[iter] ELSE Free

\* Mutant: the probe does not skip erased slots.
UsedAndDiffers(e, key, h, g) ==
  e.is_used /\ ~(Deref(h, g, e.iter).first = key)

UsedAndEqualsOrErased(e, key, h, g) ==
  (e.is_used /\ ~(Deref(h, g, e.iter).first = key)) \/ e.is_erased

\* ------------------------------------------------------------------ lookup
GetHash(m, key) == hasher_(m.hasher, key) % m.table_size

NoPosition == -1
\* The probe loop of GetHashAndPosition; fuel counts the slots not yet
\* visited: the loop reads and never writes, so a probe that has visited
\* every slot without stopping never stops (NoPosition).
RECURSIVE Probe(_, _, _, _, _, _)
Probe(m, key, h, g, table_index, fuel) ==
  The({ IF fuel = 0 THEN NoPosition
        ELSE IF UsedAndEqualsOrErased(m.table[i], key, h, g)
             THEN Probe(m, key, h, g, i + 1, fuel - 1)
             ELSE i
        : i \in {IF table_index >= m.table_size THEN 0 ELSE table_index} })

GetHashAndPosition(m, key, h, g) ==
  [hash |-> GetHash(m, key),
   position |-> Probe(m, key, h, g, GetHash(m, key), m.table_size)]

\* ------------------------------------------------------------------ growth
\* Mutant: the growth check forgets the pair about to be inserted.
LoadFactorBelowMaxNow(actual_size, table_size) ==
  MaxLoadDen * actual_size < MaxLoadNum * table_size

\* load_factor < maxLoadFactor_, in integers: (actual_size + 1) / table_size
\* and 0.75 are more than one rounding step apart whenever they differ.
LoadFactorBelowMax(actual_size, table_size) ==
  MaxLoadDen * (actual_size + 1) < MaxLoadNum * table_size

\* Mutant: a rebuild sizes the table for the pairs it holds, with no room.
NewTableSizeTight(actual_size) == actual_size

\* table_.resize(n): keeps the first n slots, value-initializes the new ones.
Resize(table, n) ==
  [i \in 0..(n - 1) |-> IF i \in DOMAIN table THEN table[i] ELSE EmptyElement]

\* The re-insertion loop of RebuildTableIfNeeded over key_value_pairs_[i..].
\* Result: [ok, m]; ok is FALSE when a probe never stops.
RECURSIVE Reindex(_, _, _, _)
Reindex(m, h, g, i) ==
  IF i > Len(m.key_value_pairs) THEN [ok |-> TRUE, m |-> m]
  ELSE The({
         LET iter == m.key_value_pairs[i]
             table_index == key_hash_pos.position
         IN  IF table_index = NoPosition THEN [ok |-> FALSE, m |-> m]
             ELSE The({ Reindex(next, h, g, i + 1)
                        : next \in {[m EXCEPT
                            !.table[table_index] =
                               [TableElement(iter) EXCEPT !.hash = key_hash_pos.hash],
                            !.elements_indices = Append(@, table_index)]} })
         : key_hash_pos \in
             {GetHashAndPosition(m, Deref(h, g, m.key_value_pairs[i]).first, h, g)} })

NewTableSize(actual_size) == actual_size * 2

\* Mutant: the growth check counts the live pairs, not the slots in use.
RebuildByLiveCount(m, h, g) ==
  LET actual_size == m.key_value_pairs_size
  IN  IF LoadFactorBelowMax(actual_size, m.table_size)
      THEN [ok |-> TRUE, m |-> m]
      ELSE LET reset == [i \in DOMAIN m.table |->
                           IF i \in Range(m.elements_indices)
                           THEN EmptyElement ELSE m.table[i]]
               table_size == NewTableSize(actual_size)
           IN  The({ Reindex(emptied, h, g, 1)
                     : emptied \in {[m EXCEPT !.table = Resize(reset, table_size),
                                              !.table_size = table_size,
                                              !.elements_indices = <<>>]} })

\* Mutant: a rebuild does not reset the slots in use before it re-inserts.
RebuildKeepsSlots(m, h, g) ==
  LET actual_size == Len(m.elements_indices)
  IN  IF LoadFactorBelowMax(actual_size, m.table_size)
      THEN [ok |-> TRUE, m |-> m]
      ELSE LET table_size == NewTableSize(actual_size)
           IN  The({ Reindex(emptied, h, g, 1)
                     : emptied \in {[m EXCEPT !.table = Resize(m.table, table_size),
                                              !.table_size = table_size,
                                              !.elements_indices = <<>>]} })

RebuildTableIfNeeded(m, h, g) ==
  LET actual_size == Len(m.elements_indices)
  IN  IF LoadFactorBelowMax(actual_size, m.table_size)
      THEN [ok |-> TRUE, m |-> m]
      ELSE LET reset == [i \in DOMAIN m.table |->
                           IF i \in Range(m.elements_indices)
                           THEN EmptyElement ELSE m.table[i]]
               table_size == NewTableSize(actual_size)
           IN  The({ Reindex(emptied, h, g, 1)
                     : emptied \in {[m EXCEPT !.table = Resize(reset, table_size),
                                              !.table_size = table_size,
                                              !.elements_indices = <<>>]} })

\* -------------------------------------------------------------- operations
\* The node a push_back of the list of object `this` allocates: the lowest
\* free address of its arena (which address the allocator hands out is not
\* observable by the container).
NewNode(h, this) ==
  CHOOSE x \in Arena(this) :
    h[x] = Free /\ \A y \in Arena(this) : y < x => h[y] # Free

\* Mutant: the new pair is linked in at the front of the list.
PushFront(m, iter) == <<iter>> \o m.key_value_pairs

\* key_value_pairs_.push_back(item)
PushBack(m, iter) == Append(m.key_value_pairs, iter)

\* Mutant: insert overwrites the value of a key that is present.
InsertItemOverwrite(m, h, g, item) ==
  The({
    The({
      LET table_index == key_hash_pos.position
          iter == NewNode(h, m.this)
      IN  IF ~r.ok \/ table_index = NoPosition
          THEN [ok |-> FALSE, m |-> m, heap |-> h]
          ELSE IF r.m.table[table_index].is_used
          THEN [ok |-> TRUE, m |-> r.m,
                heap |-> [h EXCEPT ![r.m.table[table_index].iter] = item]]
          ELSE [ok |-> TRUE,
                m |-> [r.m EXCEPT
                         !.key_value_pairs = PushBack(r.m, iter),
                         !.key_value_pairs_size = @ + 1,
                         !.table[table_index] =
                            [TableElement(iter) EXCEPT !.hash = key_hash_pos.hash],
                         !.elements_indices = Append(@, table_index)],
                heap |-> [h EXCEPT ![iter] = item]]
      : key_hash_pos \in {GetHashAndPosition(r.m, item.first, h, g)} })
    : r \in {RebuildTableIfNeeded(m, h, g)} })

\* Mutant: insert does not test whether the slot it found is used.
InsertItemAlways(m, h, g, item) ==
  The({
    The({
      LET table_index == key_hash_pos.position
          iter == NewNode(h, m.this)
      IN  IF ~r.ok \/ table_index = NoPosition
          THEN [ok |-> FALSE, m |-> m, heap |-> h]
          ELSE [ok |-> TRUE,
                m |-> [r.m EXCEPT
                         !.key_value_pairs = PushBack(r.m, iter),
                         !.key_value_pairs_size = @ + 1,
                         !.table[table_index] =
                            [TableElement(iter) EXCEPT !.hash = key_hash_pos.hash],
                         !.elements_indices = Append(@, table_index)],
                heap |-> [h EXCEPT ![iter] = item]]
      : key_hash_pos \in {GetHashAndPosition(r.m, item.first, h, g)} })
    : r \in {RebuildTableIfNeeded(m, h, g)} })

\* Mutant: insert looks the key up first and runs the growth check only
\* when the key is absent.
InsertItemLookupFirst(m, h, g, item) ==
  The({
    IF found = NoPosition THEN [ok |-> FALSE, m |-> m, heap |-> h]
    ELSE IF m.table[found].is_used THEN [ok |-> TRUE, m |-> m, heap |-> h]
    ELSE The({
      The({
        LET table_index == key_hash_pos.position
            iter == NewNode(h, m.this)
        IN  IF ~r.ok \/ table_index = NoPosition
            THEN [ok |-> FALSE, m |-> m, heap |-> h]
            ELSE [ok |-> TRUE,
                  m |-> [r.m EXCEPT
                           !.key_value_pairs = PushBack(r.m, iter),
                           !.key_value_pairs_size = @ + 1,
                           !.table[table_index] =
                              [TableElement(iter) EXCEPT !.hash = key_hash_pos.hash],
                           !.elements_indices = Append(@, table_index)],
                  heap |-> [h EXCEPT ![iter] = item]]
        : key_hash_pos \in {GetHashAndPosition(r.m, item.first, h, g)} })
      : r \in {RebuildTableIfNeeded(m, h, g)} })
    : found \in {GetHashAndPosition(m, item.first, h, g).position} })

\* insert(item) on container m in heap h.  Result: [ok, m, heap]; ok is
\* FALSE when the call never returns.
InsertItem(m, h, g, item) ==
  The({
    The({
      LET table_index == key_hash_pos.position
          iter == NewNode(h, m.this)
      IN  IF ~r.ok \/ table_index = NoPosition
          THEN [ok |-> FALSE, m |-> m, heap |-> h]
          ELSE IF r.m.table[table_index].is_used
          THEN [ok |-> TRUE, m |-> r.m, heap |-> h]
          ELSE [ok |-> TRUE,
                m |-> [r.m EXCEPT
                         !.key_value_pairs = PushBack(r.m, iter),
                         !.key_value_pairs_size = @ + 1,
                         !.table[table_index] =
                            [TableElement(iter) EXCEPT !.hash = key_hash_pos.hash],
                         !.elements_indices = Append(@, table_index)],
                heap |-> [h EXCEPT ![iter] = item]]
      : key_hash_pos \in {GetHashAndPosition(r.m, item.first, h, g)} })
    : r \in {RebuildTableIfNeeded(m, h, g)} })

\* The number of slots the repair loop of erase visits before it breaks;
\* NoPosition when it has not left after `fuel` slots.
RECURSIVE RepairScan(_, _, _, _, _, _)
RepairScan(table, table_size, hash, fill, table_index, fuel) ==
  The({ IF fuel = 0 THEN NoPosition
        ELSE IF ~table[i].is_used THEN 1
        ELSE IF i = hash THEN 1
        ELSE The({ IF rest = NoPosition THEN NoPosition ELSE rest + 1
                   : rest \in {
                       IF table[i].hash # hash
                       THEN RepairScan(table, table_size, hash, fill, i + 1, fuel - 1)
                       ELSE RepairScan([table EXCEPT ![fill] = table[i],
                                                     ![i] = ErasedElement],
                                       table_size, hash, i, i + 1, fuel - 1)} })
        : i \in {IF table_index >= table_size THEN 0 ELSE table_index} })

\* Mutant: the repair loop copies a slot back and does not erase the slot
\* it copied from.
RECURSIVE RepairLoopCopy(_, _, _, _, _)
RepairLoopCopy(table, table_size, hash, fill, table_index) ==
  The({ IF ~table[i].is_used THEN table
        ELSE IF i = hash THEN table
        ELSE IF table[i].hash # hash
             THEN RepairLoopCopy(table, table_size, hash, fill, i + 1)
             ELSE The({ RepairLoopCopy(moved, table_size, hash, i, i + 1)
                        : moved \in {[table EXCEPT ![fill] = table[i]]} })
        : i \in {IF table_index >= table_size THEN 0 ELSE table_index} })

\* Mutant: the repair loop walks on over a tombstone and breaks only at an
\* Empty slot or at the home slot.
RECURSIVE RepairLoopOverTombstones(_, _, _, _, _)
RepairLoopOverTombstones(table, table_size, hash, fill, table_index) ==
  The({ IF table[i] = EmptyElement THEN table
        ELSE IF i = hash THEN table
        ELSE IF ~table[i].is_used \/ table[i].hash # hash
             THEN RepairLoopOverTombstones(table, table_size, hash, fill, i + 1)
             ELSE The({ RepairLoopOverTombstones(moved, table_size, hash, i, i + 1)
                        : moved \in {[table EXCEPT ![fill] = table[i],
                                                   ![i] = ErasedElement]} })
        : i \in {IF table_index >= table_size THEN 0 ELSE table_index} })

\* Mutant: erase leaves the run behind the erased slot as it is.
RepairLoopNone(table, table_size, hash, fill, table_index) == table

\* The repair loop of erase: fill is erased_table_index_to_fill.  The slot at
\* fill is never used, so the loop stops within one round of the table.
RECURSIVE RepairLoop(_, _, _, _, _)
RepairLoop(table, table_size, hash, fill, table_index) ==
  The({ IF ~table[i].is_used THEN table
        ELSE IF i = hash THEN table
        ELSE IF table[i].hash # hash
             THEN RepairLoop(table, table_size, hash, fill, i + 1)
             ELSE The({ RepairLoop(moved, table_size, hash, i, i + 1)
                        : moved \in {[table EXCEPT ![fill] = table[i],
                                                   ![i] = ErasedElement]} })
        : i \in {IF table_index >= table_size THEN 0 ELSE table_index} })

\* key_value_pairs_.erase(iter)
ListErase(list, iter) == SelectSeq(list, LAMBDA x : x # iter)

\* Mutant: erase destroys the pair and leaves its slot in the table.
EraseKeyKeepSlot(m, h, g, key) ==
  The({
    LET table_index == key_hash_pos.position
        iter == m.table[table_index].iter
    IN  IF table_index = NoPosition
        THEN [ok |-> FALSE, undefined |-> FALSE, m |-> m, heap |-> h]
        ELSE IF ~m.table[table_index].is_used
        THEN [ok |-> TRUE, undefined |-> FALSE, m |-> m, heap |-> h]
        ELSE IF iter \notin Range(m.key_value_pairs)
        THEN [ok |-> TRUE, undefined |-> TRUE, m |-> m, heap |-> h]
        ELSE [ok |-> TRUE, undefined |-> FALSE,
              m |-> [m EXCEPT
                       !.key_value_pairs = ListErase(@, iter),
                       !.key_value_pairs_size = @ - 1],
              heap |-> [h EXCEPT ![iter] = Free]]
    : key_hash_pos \in {GetHashAndPosition(m, key, h, g)} })

\* Mutant: erase does not test whether the slot it found is used, and marks
\* it erased.
EraseKeyUnchecked(m, h, g, key) ==
  The({
    LET table_index == key_hash_pos.position
        iter == m.table[table_index].iter
    IN  IF table_index = NoPosition
        THEN [ok |-> FALSE, undefined |-> FALSE, m |-> m, heap |-> h]
        ELSE IF ~m.table[table_index].is_used
        THEN [ok |-> TRUE, undefined |-> FALSE,
              m |-> [m EXCEPT !.table[table_index] = ErasedElement], heap |-> h]
        ELSE IF iter \notin Range(m.key_value_pairs)
        THEN [ok |-> TRUE, undefined |-> TRUE, m |-> m, heap |-> h]
        ELSE [ok |-> TRUE, undefined |-> FALSE,
              m |-> [m EXCEPT
                       !.key_value_pairs = ListErase(@, iter),
                       !.key_value_pairs_size = @ - 1,
                       !.table = The({
                          RepairLoop(erased, m.table_size, key_hash_pos.hash,
                                     table_index, table_index + 1)
                          : erased \in {[m.table EXCEPT
                                           ![table_index] = ErasedElement]} })],
              heap |-> [h EXCEPT ![iter] = Free]]
    : key_hash_pos \in {GetHashAndPosition(m, key, h, g)} })

\* erase(key).  Result: [ok, undefined, m, heap]; undefined is TRUE when the
\* call hands std::list::erase an iterator that is not into its own list.
EraseKey(m, h, g, key) ==
  The({
    LET table_index == key_hash_pos.position
        iter == m.table[table_index].iter
    IN  IF table_index = NoPosition
        THEN [ok |-> FALSE, undefined |-> FALSE, m |-> m, heap |-> h]
        ELSE IF ~m.table[table_index].is_used
        THEN [ok |-> TRUE, undefined |-> FALSE, m |-> m, heap |-> h]
        ELSE IF iter \notin Range(m.key_value_pairs)
        THEN [ok |-> TRUE, undefined |-> TRUE, m |-> m, heap |-> h]
        ELSE [ok |-> TRUE, undefined |-> FALSE,
              m |-> [m EXCEPT
                       !.key_value_pairs = ListErase(@, iter),
                       !.key_value_pairs_size = @ - 1,
                       !.table = The({
                          RepairLoop(erased, m.table_size, key_hash_pos.hash,
                                     table_index, table_index + 1)
                          : erased \in {[m.table EXCEPT
                                           ![table_index] = ErasedElement]} })],
              heap |-> [h EXCEPT ![iter] = Free]]
    : key_hash_pos \in {GetHashAndPosition(m, key, h, g)} })

Max(x, y) == IF x >= y THEN x ELSE y

\* Mutant: clear gives the table its initial size again.
ClearMapShrink(m, h) ==
  [m |-> [m EXCEPT !.table = [i \in 0..(initialSize_ - 1) |-> EmptyElement],
                   !.table_size = initialSize_,
                   !.elements_indices = <<>>,
                   !.key_value_pairs = <<>>,
                   !.key_value_pairs_size = 0],
   heap |-> [x \in Addr |->
               IF x \in Range(m.key_value_pairs) THEN Free ELSE h[x]]]

\* Mutant: clear leaves the slots of the table as they are.
ClearMapKeepSlots(m, h) ==
  LET table_size == Max(m.table_size, initialSize_)
  IN  [m |-> [m EXCEPT !.table = Resize(m.table, table_size),
                       !.table_size = table_size,
                       !.elements_indices = <<>>,
                       !.key_value_pairs = <<>>,
                       !.key_value_pairs_size = 0],
       heap |-> [x \in Addr |->
                   IF x \in Range(m.key_value_pairs) THEN Free ELSE h[x]]]

\* clear().  Result: [m, heap].
ClearMap(m, h) ==
  LET reset == [i \in DOMAIN m.table |->
                  IF i \in Range(m.elements_indices)
                  THEN EmptyElement ELSE m.table[i]]
      table_size == Max(m.table_size, initialSize_)
  IN  [m |-> [m EXCEPT !.table = Resize(reset, table_size),
                       !.table_size = table_size,
                       !.elements_indices = <<>>,
                       !.key_value_pairs = <<>>,
                       !.key_value_pairs_size = 0],
       heap |-> [x \in Addr |->
                   IF x \in Range(m.key_value_pairs) THEN Free ELSE h[x]]]

\* HashMap(Hash hasher) for the object `this`: the members' initializers,
\* then clear().
Constructed(this, hasher) ==
  ClearMap([this |-> this,
            table |-> <<>>, key_value_pairs |-> <<>>, elements_indices |-> <<>>,
            hasher |-> hasher, table_size |-> 0, key_value_pairs_size |-> 0],
           [x \in Addr |-> Free]).m

\* Mutant: operator[] does not look the key up again after inserting it.
IndexKeyStale(m, h, g, key) ==
  The({
    The({
      IF ~r.ok \/ table_index \notin DOMAIN r.m.table
      THEN [ok |-> FALSE, m |-> m, heap |-> h, iter |-> NoIter]
      ELSE [ok |-> TRUE, m |-> r.m, heap |-> r.heap,
            iter |-> r.m.table[table_index].iter]
      : r \in {IF table_index # NoPosition /\ ~m.table[table_index].is_used
               THEN InsertItem(m, h, g, [first |-> key, second |-> DefaultValue])
               ELSE [ok |-> table_index # NoPosition, m |-> m, heap |-> h]} })
    : table_index \in {GetHashAndPosition(m, key, h, g).position} })

\* operator[] (key).  Result: [ok, m, heap, iter]; iter is the node whose
\* second member the returned reference names.
IndexKey(m, h, g, key) ==
  The({
    The({
      The({
        IF ~r.ok \/ again = NoPosition
        THEN [ok |-> FALSE, m |-> m, heap |-> h, iter |-> NoIter]
        ELSE [ok |-> TRUE, m |-> r.m, heap |-> r.heap,
              iter |-> r.m.table[again].iter]
        : again \in {GetHashAndPosition(r.m, key, r.heap, g).position} })
      : r \in {IF table_index # NoPosition /\ ~m.table[table_index].is_used
               THEN InsertItem(m, h, g, [first |-> key, second |-> DefaultValue])
               ELSE [ok |-> table_index # NoPosition, m |-> m, heap |-> h]} })
    : table_index \in {GetHashAndPosition(m, key, h, g).position} })

\* key_value_pairs_.end()
End == 0

\* find(key): the iterator returned, End when the probe stops at a slot that
\* is not used.
Find(m, h, g, key) ==
  The({ IF ~m.table[table_index].is_used THEN End ELSE m.table[table_index].iter
        : table_index \in {GetHashAndPosition(m, key, h, g).position} })

\* at(key): [threw, value]; threw is the std::out_of_range.
At(m, h, g, key) ==
  The({ IF ~m.table[table_index].is_used
        THEN [threw |-> TRUE, value |-> DefaultValue]
        ELSE [threw |-> FALSE,
              value |-> Deref(h, g, m.table[table_index].iter).second]
        : table_index \in {GetHashAndPosition(m, key, h, g).position} })

\* size(), empty(), and the pairs begin()..end() walks over.
Size(m) == m.key_value_pairs_size
Empty(m) == m.key_value_pairs = <<>>
Iteration(m, h) ==
  [i \in 1..Len(m.key_value_pairs) |->
     <<h[m.key_value_pairs[i]].first, h[m.key_value_pairs[i]].second>>]

\* The loop of operator= : insert(*iter) for every pair of the copy's list.
\* Result: [ok, m, heap].
RECURSIVE InsertAll(_, _, _, _, _)
InsertAll(m, h, g, items, i) ==
  IF i > Len(items) THEN [ok |-> TRUE, m |-> m, heap |-> h]
  ELSE The({ IF ~r.ok THEN r ELSE InsertAll(r.m, r.heap, g, items, i + 1)
             : r \in {InsertItem(m, h, g, [first |-> items[i][1],
                                           second |-> items[i][2]])} })

\* The copy of a std::list: a new node for every pair, in order.
\* Result: [list, heap].
RECURSIVE CopyList(_, _, _, _, _)
CopyList(list, h, this, i, acc) ==
  IF i > Len(list) THEN [list |-> acc, heap |-> h]
  ELSE The({
         The({ CopyList(list, copied, this, i + 1, linked)
               : copied \in {[h EXCEPT ![iter] = h[list[i]]]},
                 linked \in {Append(acc, iter)} })
         : iter \in {NewNode(h, this)} })

\* The implicitly defined copy constructor HashMap(const HashMap&): every
\* data member is copied.  The list gets nodes of its own; the slots of
\* table_ are copied as they are, with their iterators into other's list.
\* Result: [m, heap].
MemberwiseCopy(this, other, h) ==
  The({ [m |-> [other EXCEPT !.this = this, !.key_value_pairs = l.list],
         heap |-> l.heap]
        : l \in {CopyList(other.key_value_pairs, h, this, 1, <<>>)} })

\* ~HashMap(): the list frees its nodes.
Destroy(m, h) ==
  [x \in Addr |-> IF x \in Range(m.key_value_pairs) THEN Free ELSE h[x]]

\* Mutant: operator= copies the data members of other as they are, list
\* nodes shared.
AssignmentShallow(m, other, h, g) ==
  [ok |-> TRUE, m |-> [other EXCEPT !.this = m.this], heap |-> h]

\* operator=(other) on container m: the local copy, clear(), the hasher,
\* insert(*iter) over the copy's own list, and the copy's destructor.
\* Result: [ok, m, heap].
Assignment(m, other, h, g) ==
  The({
    The({
      The({
        The({ [ok |-> r.ok, m |-> r.m, heap |-> Destroy(copy.m, r.heap)]
              : r \in {InsertAll(rehashed, c.heap, g, items, 1)} })
        : rehashed \in {[c.m EXCEPT !.hasher = copy.m.hasher]},
          items \in {Iteration(copy.m, copy.heap)} })
      : c \in {ClearMap(m, copy.heap)} })
    : copy \in {MemberwiseCopy("copy", other, h)} })

\* ------------------------------------------------- abstract content (ghost)
AbsKeys(s) == {s[i][1] : i \in DOMAIN s}
AbsValue(s, k) == s[CHOOSE i \in DOMAIN s : s[i][1] = k][2]
AbsInsert(s, k, v) == IF k \in AbsKeys(s) THEN s ELSE Append(s, <<k, v>>)
AbsErase(s, k) == SelectSeq(s, LAMBDA p : p[1] # k)
AbsWrite(s, k, v) == [i \in DOMAIN s |-> IF s[i][1] = k THEN <<k, v>> ELSE s[i]]

\* ------------------------------------------------------------------ actions
\* Both objects default-constructed, with the same hash functor.
Init ==
  /\ heap = [x \in Addr |-> Free]
  /\ \E hs \in Hashers : maps = [m \in Maps |-> Constructed(m, hs)]
  /\ abs = [m \in Maps |-> <<>>]
  /\ ub = FALSE

\* The growth of the model is capped: a call that would grow the table past
\* MaxTableSize is not made.
Fits(m) == m.table_size <= MaxTableSize

Insert(m, k, v) ==
  /\ ~ub
  /\ \E g \in Garbage(maps[m]) :
       \E r \in {InsertItem(maps[m], heap, g, [first |-> k, second |-> v])} :
         /\ r.ok /\ Fits(r.m)
         /\ maps' = [maps EXCEPT ![m] = r.m]
         /\ heap' = r.heap
  /\ abs' = [abs EXCEPT ![m] = AbsInsert(@, k, v)]
  /\ UNCHANGED ub

Erase(m, k) ==
  /\ ~ub
  /\ \E g \in Garbage(maps[m]) :
       \E r \in {EraseKey(maps[m], heap, g, k)} :
         /\ r.ok
         /\ maps' = [maps EXCEPT ![m] = r.m]
         /\ heap' = r.heap
         /\ ub' = r.undefined
  /\ abs' = [abs EXCEPT ![m] = AbsErase(@, k)]

Clear(m) ==
  /\ ~ub
  /\ \E r \in {ClearMap(maps[m], heap)} :
       /\ maps' = [maps EXCEPT ![m] = r.m]
       /\ heap' = r.heap
  /\ abs' = [abs EXCEPT ![m] = <<>>]
  /\ UNCHANGED ub

\* m[k]: operator[] used as a read.
Index(m, k) ==
  /\ ~ub
  /\ \E g \in Garbage(maps[m]) :
       \E r \in {IndexKey(maps[m], heap, g, k)} :
         /\ r.ok /\ Fits(r.m)
         /\ maps' = [maps EXCEPT ![m] = r.m]
         /\ heap' = r.heap
  /\ abs' = [abs EXCEPT ![m] = AbsInsert(@, k, DefaultValue)]
  /\ UNCHANGED ub

\* m[k] = v: operator[] and the write through the reference it returned.
\* A write into a freed node is undefined.
IndexAssign(m, k, v) ==
  /\ ~ub
  /\ \E g \in Garbage(maps[m]) :
       \E r \in {IndexKey(maps[m], heap, g, k)} :
         /\ r.ok /\ Fits(r.m)
         /\ maps' = [maps EXCEPT ![m] = r.m]
         /\ IF r.heap[r.iter] = Free
            THEN ub' = TRUE /\ heap' = r.heap
            ELSE ub' = FALSE /\ heap' = [r.heap EXCEPT ![r.iter].second = v]
  /\ abs' = [abs EXCEPT ![m] = AbsWrite(AbsInsert(@, k, DefaultValue), k, v)]

\* find(key) and at(key) are const: whatever they return, no member changes.
FindCall(m, k) ==
  /\ ~ub
  /\ \E g \in Garbage(maps[m]) :
       GetHashAndPosition(maps[m], k, heap, g).position # NoPosition
  /\ UNCHANGED vars

AtCall(m, k) ==
  /\ ~ub
  /\ \E g \in Garbage(maps[m]) :
       GetHashAndPosition(maps[m], k, heap, g).position # NoPosition
  /\ UNCHANGED vars

Assign(m, o) ==
  /\ ~ub
  /\ \E g \in Garbage(maps[m]) :
       \E r \in {Assignment(maps[m], maps[o], heap, g)} :
         /\ r.ok /\ Fits(r.m)
         /\ maps' = [maps EXCEPT ![m] = r.m]
         /\ heap' = r.heap
  /\ abs' = [abs EXCEPT ![m] = abs[o]]
  /\ UNCHANGED ub

\* HashMap m(o): the object m, not used so far, is constructed as a copy of o
\* (what the default constructor left in m is given up first).
CopyConstruct(m, o) ==
  /\ ~ub
  /\ m # o
  /\ maps[m] = Constructed(m, maps[m].hasher)
  /\ \E destroyed \in {Destroy(maps[m], heap)} :
       \E r \in {MemberwiseCopy(m, maps[o], destroyed)} :
         /\ maps' = [maps EXCEPT ![m] = r.m]
         /\ heap' = r.heap
  /\ abs' = [abs EXCEPT ![m] = abs[o]]
  /\ UNCHANGED ub

\* One container, every operation.
Next ==
  \/ \E k \in Keys, v \in Vals : Insert("a", k, v)
  \/ \E k \in Keys : Erase("a", k)
  \/ Clear("a")
  \/ \E k \in Keys : Index("a", k)
  \/ \E k \in Keys, v \in Vals : IndexAssign("a", k, v)
  \/ \E k \in Keys : FindCall("a", k)
  \/ \E k \in Keys : AtCall("a", k)
  \/ Assign("a", "a")

Spec == Init /\ [][Next]_vars

\* Two containers constructed with different hash functors (an assignment
\* makes them equal), explored together within the smaller bounds.
InitPair ==
  /\ heap = [x \in Addr |-> Free]
  /\ maps = [m \in Maps |->
               Constructed(m, IF m = "a" THEN "halving" ELSE "constant")]
  /\ abs = [m \in Maps |-> <<>>]
  /\ ub = FALSE

PairFits == \A m \in Maps : maps[m].table_size <= MaxPairTableSize

\* Every operation on either container, and assignment between them.
NextAssign ==
  \/ (\E m \in Maps, k \in PairKeys, v \in Vals : Insert(m, k, v)) /\ PairFits'
  \/ (\E m \in Maps, k \in PairKeys : Erase(m, k)) /\ PairFits'
  \/ (\E m \in Maps : Clear(m)) /\ PairFits'
  \/ (\E m \in Maps, k \in PairKeys : Index(m, k)) /\ PairFits'
  \/ (\E m \in Maps, k \in PairKeys, v \in Vals : IndexAssign(m, k, v)) /\ PairFits'
  \/ (\E m \in Maps, k \in PairKeys : FindCall(m, k)) /\ PairFits'
  \/ (\E m \in Maps, k \in PairKeys : AtCall(m, k)) /\ PairFits'
  \/ (\E m \in Maps, o \in Maps : Assign(m, o)) /\ PairFits'

SpecAssign == InitPair /\ [][NextAssign]_vars

\* Copy construction: the source "a" is operated on, "b" is constructed as a
\* copy of it (HashMap b(a)) and then only observed.
NextCopy ==
  \/ (\E k \in PairKeys, v \in Vals : Insert("a", k, v)) /\ PairFits'
  \/ (\E k \in PairKeys : Erase("a", k)) /\ PairFits'
  \/ Clear("a") /\ PairFits'
  \/ (\E k \in PairKeys, v \in Vals : IndexAssign("a", k, v)) /\ PairFits'
  \/ CopyConstruct("b", "a") /\ PairFits'
  \/ (\E k \in PairKeys : FindCall("b", k)) /\ PairFits'
  \/ (\E k \in PairKeys : AtCall("b", k)) /\ PairFits'

SpecCopy == InitPair /\ [][NextCopy]_vars

\* ---------------------------------------------------------------- helpers
\* of the properties below
Occupied(m) == {i \in DOMAIN m.table : m.table[i].is_used}
Tombstones(m) == {i \in DOMAIN m.table : m.table[i].is_erased}
Present(m) == AbsKeys(abs[m])
Grown(m) == maps[m].table_size > initialSize_
\* The growth check of the next insert call on m will rebuild the table.
GrowthDue(m) ==
  ~LoadFactorBelowMax(Len(maps[m].elements_indices), maps[m].table_size)
\* The probe for k passes at least one slot before it stops.
Displaced(m, k) ==
  \A g \in Garbage(maps[m]) :
    GetHashAndPosition(maps[m], k, heap, g).position # GetHash(maps[m], k)

\* C1: every key inserted with value v and not erased or cleared since is
\* found: find(k) is an iterator to the pair (k, v) and at(k) returns v, in
\* every reachable state (so also after growths and erasures of other keys).
C1_RoundTrip ==
  \A m \in Maps : \A i \in DOMAIN abs[m] : \A g \in Garbage(maps[m]) :
    LET k == abs[m][i][1]
        v == abs[m][i][2]
        it == Find(maps[m], heap, g, k)
    IN  /\ it # End
        /\ it \in Range(maps[m].key_value_pairs)
        /\ heap[it] = [first |-> k, second |-> v]
        /\ At(maps[m], heap, g, k) = [threw |-> FALSE, value |-> v]

\* C1 witness: after a growth and an erasure, a present key lies behind a
\* tombstone or another key on its probe path.
C1_Witness ==
  /\ Grown("a")
  /\ Tombstones(maps["a"]) # {}
  /\ Cardinality(Present("a")) >= 2
  /\ \E k \in Present("a") : Displaced("a", k)

\* C2: for every key that is not present, find(k) is the end iterator and
\* at(k) throws.
C2_AbsentNotFound ==
  \A m \in Maps : \A k \in Keys \ Present(m) : \A g \in Garbage(maps[m]) :
    /\ Find(maps[m], heap, g, k) = End
    /\ At(maps[m], heap, g, k).threw

\* C2 witness: a key is absent although its home slot is taken (by a
\* tombstone it left behind, or by another key), and other keys are present.
C2_Witness ==
  \E k \in Keys \ Present("a") :
    /\ Displaced("a", k)
    /\ Tombstones(maps["a"]) # {}
    /\ Present("a") # {}

\* C3: first write wins.  In every reachable state, insert(k, v) of a key
\* that is present leaves at(k), size() and the iteration (order and values)
\* as they were, whether or not the call rebuilds the table.
C3_FirstWriteWins ==
  \A m \in Maps : \A k \in Present(m) : \A v \in Vals :
    \A g \in Garbage(maps[m]) :
      LET r == InsertItem(maps[m], heap, g, [first |-> k, second |-> v])
      IN  /\ r.ok
          /\ At(r.m, r.heap, g, k) =
               [threw |-> FALSE, value |-> AbsValue(abs[m], k)]
          /\ Size(r.m) = Size(maps[m])
          /\ Iteration(r.m, r.heap) = abs[m]

\* C3 witness: a key is present and the next insert call rebuilds the table
\* (tombstones are counted by the growth check).
C3_Witness ==
  /\ Present("a") # {}
  /\ GrowthDue("a")
  /\ Tombstones(maps["a"]) # {}
  /\ NewTableSize(Len(maps["a"].elements_indices)) <= MaxTableSize

\* C4: no two pairs of the list have the same key, and size() is the number
\* of pairs of the list, of keys present and of used slots.
C4_KeyUniqueness ==
  \A m \in Maps :
    LET kv == maps[m].key_value_pairs
    IN  /\ \A i, j \in DOMAIN kv :
             i # j => heap[kv[i]].first # heap[kv[j]].first
        /\ Size(maps[m]) = Len(kv)
        /\ Size(maps[m]) = Cardinality(Present(m))
        /\ Size(maps[m]) = Cardinality(Occupied(maps[m]))

\* C4 witness: several keys are present after erasures and a growth.
C4_Witness ==
  /\ Size(maps["a"]) >= 2
  /\ Tombstones(maps["a"]) # {}
  /\ Grown("a")

\* C5: erase of a key that is not present returns with every member of the
\* container and every list node as it was.
C5_EraseAbsentNoOp ==
  \A m \in Maps : \A k \in Keys \ Present(m) : \A g \in Garbage(maps[m]) :
    EraseKey(maps[m], heap, g, k) =
      [ok |-> TRUE, undefined |-> FALSE, m |-> maps[m], heap |-> heap]

\* C5 witness: a key is absent, its probe runs through taken slots, and
\* other keys are present in a grown table.
C5_Witness ==
  /\ Grown("a")
  /\ Cardinality(Present("a")) >= 2
  /\ \E k \in Keys \ Present("a") : Displaced("a", k)

\* C6: walking the list from begin() to end() yields the pairs present, in
\* the order of their (last) insertion.
C6_InsertionOrder ==
  \A m \in Maps : Iteration(maps[m], heap) = abs[m]

\* C6 witness: after a growth and an erasure with a tombstone left, a larger
\* key precedes a smaller one.
C6_Witness ==
  /\ Grown("a")
  /\ Tombstones(maps["a"]) # {}
  /\ \E i, j \in DOMAIN abs["a"] : i < j /\ abs["a"][i][1] > abs["a"][j][1]

\* What clear() leaves behind, but for the capacity.
Cleared(r) ==
  /\ Size(r.m) = 0
  /\ Empty(r.m)
  /\ r.m.key_value_pairs = <<>>
  /\ r.m.elements_indices = <<>>
  /\ \A i \in DOMAIN r.m.table : r.m.table[i] = EmptyElement
  /\ DOMAIN r.m.table = 0..(r.m.table_size - 1)

\* C9 as claimed: a clear() step leaves the container empty, every slot
\* Empty, no used slot counted, and the capacity at the floor of 3.
C9_ClearResetsCapacity ==
  [][Clear("a") =>
       /\ Cleared([m |-> maps'["a"]])
       /\ maps'["a"].table_size = initialSize_]_vars

\* C9 as amended: from every reachable state clear() leaves the container
\* empty, every slot Empty and no used slot counted; the capacity is left as
\* it was (never below the floor of 3).
C9_ClearKeepsCapacity ==
  \A m \in Maps :
    LET r == ClearMap(maps[m], heap)
    IN  /\ Cleared(r)
        /\ r.m.table_size = maps[m].table_size
        /\ r.m.table_size >= initialSize_
        /\ \A x \in Range(maps[m].key_value_pairs) : r.heap[x] = Free

\* C9 witness: the state a clear() leaves after a growth: empty, no slot
\* used or erased, capacity above the floor.
C9_Witness ==
  /\ Grown("a")
  /\ Cleared([m |-> maps["a"]])
  /\ abs["a"] = <<>>

\* C10: operator[](k).  Key present: no member changes and the reference is
\* to the value of the pair of k.  Key absent: exactly the pair (k,
\* ValueType()) is appended to the iteration, size() grows by one and the
\* reference is to the value of that new pair, growth or not.
C10_IndexOperator ==
  \A m \in Maps : \A k \in Keys : \A g \in Garbage(maps[m]) :
    LET r == IndexKey(maps[m], heap, g, k)
    IN  /\ r.ok
        /\ IF k \in Present(m)
           THEN /\ r.m = maps[m]
                /\ r.heap = heap
                /\ r.iter \in Range(maps[m].key_value_pairs)
                /\ heap[r.iter] =
                     [first |-> k, second |-> AbsValue(abs[m], k)]
           ELSE /\ Iteration(r.m, r.heap) =
                     Append(abs[m], <<k, DefaultValue>>)
                /\ Size(r.m) = Size(maps[m]) + 1
                /\ r.iter = r.m.key_value_pairs[Len(r.m.key_value_pairs)]
                /\ r.heap[r.iter] = [first |-> k, second |-> DefaultValue]

\* C10 witness: a key is absent, others are present, and inserting it
\* rebuilds the table.
C10_Witness ==
  /\ Present("a") # {}
  /\ Keys \ Present("a") # {}
  /\ GrowthDue("a")
  /\ NewTableSize(Len(maps["a"].elements_indices)) <= MaxTableSize

\* What the calls on container m observe agrees with its abstract content:
\* the iteration, size(), and find and at of every key.
Observed(m) ==
  /\ Iteration(maps[m], heap) = abs[m]
  /\ Size(maps[m]) = Len(abs[m])
  /\ \A k \in Keys : \A g \in Garbage(maps[m]) :
       LET it == Find(maps[m], heap, g, k)
           at == At(maps[m], heap, g, k)
       IN  IF k \in Present(m)
           THEN /\ it # End
                /\ Deref(heap, g, it) =
                     [first |-> k, second |-> AbsValue(abs[m], k)]
                /\ at = [threw |-> FALSE, value |-> AbsValue(abs[m], k)]
           ELSE it = End /\ at.threw

\* C7: copy independence under assignment.  In every reachable state of two
\* containers, m = o (o = m included) gives m the pairs of o in o's iteration
\* order and leaves o's as they are; and what each container shows (find, at,
\* size, iteration) is its own content, which only calls on that container
\* change: no call on one container changes what the other shows.
C7_CopyIndependence ==
  \A m \in Maps :
    /\ Observed(m)
    /\ \A o \in Maps : \A g \in Garbage(maps[m]) :
         LET r == Assignment(maps[m], maps[o], heap, g)
         IN  /\ r.ok
             /\ Iteration(r.m, r.heap) = abs[o]
             /\ Size(r.m) = Len(abs[o])
             /\ o # m => Iteration(maps[o], r.heap) = abs[o]

\* C7 witness: an assignment has made the hash functors equal, and since
\* then one container has lost a key that the other still holds.
C7_Witness ==
  /\ maps["a"].hasher = maps["b"].hasher
  /\ Tombstones(maps["a"]) # {}
  /\ \E k \in Present("b") : k \notin Present("a")
  /\ Present("a") # {}

\* Every used slot of m's table refers to a node of m's own list.
OwnsItsEntries(m) ==
  \A i \in Occupied(maps[m]) :
    maps[m].table[i].iter \in Range(maps[m].key_value_pairs)

\* C8 as claimed: also after a copy construction, every used slot of a
\* container refers to a pair of its own list, never to a pair of the
\* source, and find and at on it show its own content whatever is done to
\* the source.
C8_CopyConstructionOwnsEntries ==
  ~ub => \A m \in Maps : OwnsItsEntries(m) /\ Observed(m)

\* The key of the pair that the used slot i of m refers to.
KeyAt(m, h, i) == h[m.table[i].iter].first

\* C11: repair correctness.  With the constant hash functor (every key has
\* the home slot h), at least 3 keys present and no tombstone, erase of the
\* key inserted first leaves the remaining keys in the slots h, h+1, ...
\* (mod table_size) in insertion order, each found by find, and exactly one
\* tombstone, in the slot just after the last of them.
C11_RepairCorrectness ==
  \A m \in Maps : \A g \in Garbage(maps[m]) :
    (/\ maps[m].hasher = "constant"
     /\ Len(abs[m]) >= 3
     /\ Tombstones(maps[m]) = {})
    => LET k == abs[m][1][1]
           rest == Tail(abs[m])
           home == GetHash(maps[m], k)
           r == EraseKey(maps[m], heap, g, k)
           slot(j) == (home + j - 1) % r.m.table_size
       IN  /\ r.ok /\ ~r.undefined
           /\ \A j \in DOMAIN rest :
                /\ r.m.table[slot(j)].is_used
                /\ KeyAt(r.m, r.heap, slot(j)) = rest[j][1]
                /\ Find(r.m, r.heap, g, rest[j][1]) = r.m.table[slot(j)].iter
           /\ Occupied(r.m) = {slot(j) : j \in DOMAIN rest}
           /\ Tombstones(r.m) = {slot(Len(rest) + 1)}

\* C11 witness: three colliding keys fill the slots from their home slot on,
\* no tombstone, and the erase of the first moves the two others.
C11_Witness ==
  /\ maps["a"].hasher = "constant"
  /\ Len(abs["a"]) >= 3
  /\ Tombstones(maps["a"]) = {}
  /\ \E g \in Garbage(maps["a"]) :
       LET r == EraseKey(maps["a"], heap, g, abs["a"][1][1])
       IN  r.ok /\ r.m.table[0] # maps["a"].table[0]
                /\ r.m.table[1] # maps["a"].table[1]
                /\ r.m.table[0].is_used /\ r.m.table[1].is_used

\* used_count: the slots that are not Empty.
UsedCount(m) == Cardinality(Occupied(m) \cup Tombstones(m))

EmptySlots(m) == {i \in DOMAIN m.table : m.table[i] = EmptyElement}

\* C13: in every reachable state the table has an Empty slot; the probe of
\* GetHashAndPosition for any key stops, at an Empty slot or at a used slot
\* holding that key; insert (with the probes of its rebuild) and erase
\* return; and the repair loop of erase leaves after at most table_size
\* slots.
C13_ProbeTerminates ==
  \A m \in Maps : \A k \in Keys : \A g \in Garbage(maps[m]) :
    LET p == GetHashAndPosition(maps[m], k, heap, g)
        e == EraseKey(maps[m], heap, g, k)
    IN  /\ EmptySlots(maps[m]) # {}
        /\ p.position # NoPosition
        /\ \/ p.position \in EmptySlots(maps[m])
           \/ /\ maps[m].table[p.position].is_used
              /\ KeyAt(maps[m], heap, p.position) = k
        /\ \A v \in Vals :
             InsertItem(maps[m], heap, g, [first |-> k, second |-> v]).ok
        /\ e.ok
        /\ maps[m].table[p.position].is_used =>
             RepairScan([maps[m].table EXCEPT ![p.position] = ErasedElement],
                        maps[m].table_size, p.hash, p.position, p.position + 1,
                        maps[m].table_size + 1) \in 1..maps[m].table_size

\* C13 witness: after a growth one Empty slot is left, and the probe for an
\* absent key passes every other slot before it stops there.
C13_Witness ==
  /\ Grown("a")
  /\ Cardinality(EmptySlots(maps["a"])) = 1
  /\ \E k \in Keys \ Present("a") : \E g \in Garbage(maps["a"]) :
       LET p == GetHashAndPosition(maps["a"], k, heap, g)
       IN  /\ p.position \in EmptySlots(maps["a"])
           /\ (p.position + 1) % maps["a"].table_size = p.hash

\* C14: table_size is 3 after construction and, in every step, does not
\* decrease and is not below 3; a find, at or erase step, and an operator[]
\* step on a key that is present, leave table_size as it is and do not
\* rebuild the table (operator[] on a present key changes nothing at all).
C14_CapacityMonotone ==
  /\ \A m \in Maps : maps[m].table_size = initialSize_
  /\ [][\A m \in Maps :
          /\ maps'[m].table_size >= maps[m].table_size
          /\ maps'[m].table_size >= initialSize_
          /\ (\E k \in Keys : Erase(m, k) \/ FindCall(m, k) \/ AtCall(m, k))
               => /\ maps'[m].table_size = maps[m].table_size
                  /\ maps'[m].elements_indices = maps[m].elements_indices
                  /\ DOMAIN maps'[m].table = DOMAIN maps[m].table
                  /\ Tombstones(maps[m]) \subseteq Tombstones(maps'[m])
          /\ (\E k \in Present(m) : Index(m, k))
               => maps'[m] = maps[m] /\ heap' = heap]_vars

\* C14 witness: the table has grown and every key has been erased since:
\* the capacity is still above 3.
C14_Witness ==
  /\ Grown("a")
  /\ Present("a") = {}
  /\ Tombstones(maps["a"]) # {}

\* The used slots of m that refer to the node x.
SlotsOf(m, x) == {i \in Occupied(m) : m.table[i].iter = x}

\* C15: slot/entry bijection.  Every pair of the list is referred to by
\* exactly one used slot, and every used slot refers to a pair of the list
\* (a node that is alive), so no two used slots refer to the same pair.
C15_SlotEntryBijection ==
  \A m \in Maps :
    /\ \A x \in Range(maps[m].key_value_pairs) :
         Cardinality(SlotsOf(maps[m], x)) = 1
    /\ \A i \in Occupied(maps[m]) :
         /\ maps[m].table[i].iter \in Range(maps[m].key_value_pairs)
         /\ heap[maps[m].table[i].iter] # Free
    /\ Cardinality(Occupied(maps[m])) = Len(maps[m].key_value_pairs)

\* C15 witness: in a grown table with a tombstone, the erase of a present
\* key moves another pair's slot (deletion repair).
C15_Witness ==
  /\ Grown("a")
  /\ Tombstones(maps["a"]) # {}
  /\ \E k \in Present("a") : \E g \in Garbage(maps["a"]) :
       LET r == EraseKey(maps["a"], heap, g, k)
       IN  \E i \in Occupied(r.m) :
             /\ ~maps["a"].table[i].is_used \/ maps["a"].table[i].iter # r.m.table[i].iter
             /\ Cardinality(SlotsOf(r.m, r.m.table[i].iter)) = 1

\* The run behind slot p that the repair loop of erase walks: the distances
\* d >= 1 up to the first slot that is not used or is the home slot `hash`.
RunEnd(m, p, hash) ==
  CHOOSE d \in 1..m.table_size :
    /\ LET i == (p + d) % m.table_size
       IN  ~m.table[i].is_used \/ i = hash
    /\ \A c \in 1..(d - 1) :
         LET i == (p + c) % m.table_size
         IN  m.table[i].is_used /\ i # hash
\* The final gap: the last slot of that run whose entry has the home hash of
\* the erased key; the erased slot itself when there is none.
FinalGap(m, p, hash) ==
  LET same == {d \in 1..(RunEnd(m, p, hash) - 1) :
                 m.table[(p + d) % m.table_size].hash = hash}
  IN  IF same = {} THEN p
      ELSE (p + CHOOSE d \in same : \A c \in same : c <= d) % m.table_size

\* C16: erase of a key that is present adds exactly one tombstone and takes
\* away exactly one used slot; the tombstones there were stay, and the new
\* one is at the final gap: the slot of the erased key when no later slot of
\* its run holds an entry with the same home hash.
C16_OneTombstonePerErase ==
  \A m \in Maps : \A k \in Present(m) : \A g \in Garbage(maps[m]) :
    LET p == GetHashAndPosition(maps[m], k, heap, g)
        r == EraseKey(maps[m], heap, g, k)
        gap == FinalGap(maps[m], p.position, p.hash)
    IN  /\ r.ok /\ ~r.undefined
        /\ gap \notin Tombstones(maps[m])
        /\ Tombstones(r.m) = Tombstones(maps[m]) \cup {gap}
        /\ Cardinality(Occupied(r.m)) = Cardinality(Occupied(maps[m])) - 1
        /\ EmptySlots(r.m) = EmptySlots(maps[m])

\* C16 witness: with a tombstone in the table already, the erase of a
\* present key ends with the gap behind the slot the key was in.
C16_Witness ==
  /\ Tombstones(maps["a"]) # {}
  /\ \E k \in Present("a") : \E g \in Garbage(maps["a"]) :
       LET p == GetHashAndPosition(maps["a"], k, heap, g)
       IN  /\ FinalGap(maps["a"], p.position, p.hash) # p.position
           /\ FinalGap(maps["a"], p.position, p.hash)
                \in Tombstones(EraseKey(maps["a"], heap, g, k).m)

\* The distance from slot p to the next slot that is Empty or is the home
\* slot `hash`.
EmptyEnd(m, p, hash) ==
  CHOOSE d \in 1..m.table_size :
    /\ LET i == (p + d) % m.table_size
       IN  m.table[i] = EmptyElement \/ i = hash
    /\ \A c \in 1..(d - 1) :
         LET i == (p + c) % m.table_size
         IN  m.table[i] # EmptyElement /\ i # hash

\* C17 as claimed: the repair scan of erase stops only at an Empty slot or
\* at the home slot, so every entry with the erased key's home hash between
\* the erased slot and the next Empty slot is shifted backward: it is no
\* longer in the slot it was in.
C17_RepairPassesTombstones ==
  \A m \in Maps : \A k \in Present(m) : \A g \in Garbage(maps[m]) :
    LET p == GetHashAndPosition(maps[m], k, heap, g)
        r == EraseKey(maps[m], heap, g, k)
    IN  \A d \in 1..(EmptyEnd(maps[m], p.position, p.hash) - 1) :
          LET i == (p.position + d) % maps[m].table_size
          IN  (maps[m].table[i].is_used /\ maps[m].table[i].hash = p.hash)
                => r.m.table[i] # maps[m].table[i]

\* C17 as amended: the repair scan stops at the first slot that is not used
\* (Empty or tombstone) or is the home slot.  The entries with the erased
\* key's home hash in the run of used slots up to there are shifted backward,
\* each into the gap before it, and the last gap is the tombstone; every
\* other slot, the slots behind a tombstone included, stays as it is.
C17_RepairStopsAtTombstone ==
  \A m \in Maps : \A k \in Present(m) : \A g \in Garbage(maps[m]) :
    LET p == GetHashAndPosition(maps[m], k, heap, g)
        t == maps[m].table
        r == EraseKey(maps[m], heap, g, k)
        at(d) == (p.position + d) % maps[m].table_size
        same == {d \in 1..(RunEnd(maps[m], p.position, p.hash) - 1) :
                   t[at(d)].hash = p.hash}
        gaps == same \cup {0}
        later(d) == {c \in same : c > d}
    IN  /\ r.ok
        /\ \A d \in gaps :
             r.m.table[at(d)] =
               IF later(d) = {} THEN ErasedElement
               ELSE t[at(CHOOSE c \in later(d) : \A b \in later(d) : c <= b)]
        /\ \A i \in DOMAIN t :
             i \notin {at(d) : d \in gaps} => r.m.table[i] = t[i]

\* C17 witness: behind the slot of a present key lies a tombstone and,
\* behind that and before the next Empty slot, an entry with the same home
\* hash: the erase of the key leaves that entry where it is.
C17_Witness ==
  \E k \in Present("a") : \E g \in Garbage(maps["a"]) :
    LET p == GetHashAndPosition(maps["a"], k, heap, g)
        r == EraseKey(maps["a"], heap, g, k)
    IN  \E d \in 1..(EmptyEnd(maps["a"], p.position, p.hash) - 1) :
          LET i == (p.position + d) % maps["a"].table_size
          IN  /\ d > RunEnd(maps["a"], p.position, p.hash)
              /\ maps["a"].table[i].is_used
              /\ maps["a"].table[i].hash = p.hash
              /\ r.m.table[i] = maps["a"].table[i]

\* What a rebuild leaves: the list as it was, no tombstone, and for every
\* pair of the list one used slot, where the probe for its key stops, holding
\* the key's hash modulo the table size.
Reindexed(old, new, h, g) ==
  /\ new.key_value_pairs = old.key_value_pairs
  /\ new.key_value_pairs_size = old.key_value_pairs_size
  /\ Tombstones(new) = {}
  /\ Cardinality(Occupied(new)) = Len(new.key_value_pairs)
  /\ \A x \in Range(new.key_value_pairs) :
       LET p == GetHashAndPosition(new, h[x].first, h, g)
       IN  /\ new.table[p.position].is_used
           /\ new.table[p.position].iter = x
           /\ new.table[p.position].hash = hasher_(new.hasher, h[x].first) % new.table_size

\* C18 as claimed: the growth check before an insertion grows the table
\* exactly when (n + 1) / table_size >= 0.75 for the number n of live pairs;
\* otherwise it changes nothing.
C18_GrowthCountsLiveEntries ==
  \A m \in Maps : \A g \in Garbage(maps[m]) :
    LET n == Size(maps[m])
        r == RebuildTableIfNeeded(maps[m], heap, g)
    IN  /\ r.ok
        /\ IF MaxLoadDen * (n + 1) < MaxLoadNum * maps[m].table_size
           THEN r.m = maps[m]
           ELSE r.m.table_size >= 2 * n /\ Reindexed(maps[m], r.m, heap, g)

\* C18 as amended: the growth check grows the table exactly when
\* (u + 1) / table_size >= 0.75 for the number u of slots that are not
\* Empty (tombstones counted); the new table_size is 2 * u, at least double
\* the number of live pairs, and every live pair is re-indexed; otherwise it
\* changes nothing.
C18_GrowthCountsUsedSlots ==
  \A m \in Maps : \A g \in Garbage(maps[m]) :
    LET u == UsedCount(maps[m])
        r == RebuildTableIfNeeded(maps[m], heap, g)
    IN  /\ r.ok
        /\ IF MaxLoadDen * (u + 1) < MaxLoadNum * maps[m].table_size
           THEN r.m = maps[m]
           ELSE /\ r.m.table_size = 2 * u
                /\ r.m.table_size >= 2 * Size(maps[m])
                /\ r.m.table_size >= maps[m].table_size
                /\ DOMAIN r.m.table = 0..(r.m.table_size - 1)
                /\ Reindexed(maps[m], r.m, heap, g)

\* C18 witness: with tombstones in the table the growth check rebuilds it
\* although (n + 1) / table_size is below 0.75 for the live pairs.
C18_Witness ==
  /\ Tombstones(maps["a"]) # {}
  /\ Present("a") # {}
  /\ MaxLoadDen * (Size(maps["a"]) + 1) < MaxLoadNum * maps["a"].table_size
  /\ \E g \in Garbage(maps["a"]) :
       RebuildTableIfNeeded(maps["a"], heap, g).m.table_size > maps["a"].table_size

\* C19 as claimed: insert of a key that is present is a no-op on the whole
\* state: every data member and every list node is as it was.
C19_InsertPresentNoOp ==
  \A m \in Maps : \A k \in Present(m) : \A v \in Vals :
    \A g \in Garbage(maps[m]) :
      InsertItem(maps[m], heap, g, [first |-> k, second |-> v]) =
        [ok |-> TRUE, m |-> maps[m], heap |-> heap]

\* C19 as amended: insert runs the growth check first, whether or not the
\* key is present.  For a key that is present the list, its pairs and size()
\* stay as they were; the table stays as it was only when
\* (u + 1) / table_size < 0.75 for the u slots in use, otherwise it is
\* rebuilt: table_size 2 * u, no tombstone, every pair re-indexed.
C19_InsertPresentMayRebuild ==
  \A m \in Maps : \A k \in Present(m) : \A v \in Vals :
    \A g \in Garbage(maps[m]) :
      LET u == UsedCount(maps[m])
          r == InsertItem(maps[m], heap, g, [first |-> k, second |-> v])
      IN  /\ r.ok
          /\ r.heap = heap
          /\ r.m.key_value_pairs = maps[m].key_value_pairs
          /\ r.m.key_value_pairs_size = maps[m].key_value_pairs_size
          /\ IF MaxLoadDen * (u + 1) < MaxLoadNum * maps[m].table_size
             THEN r.m = maps[m]
             ELSE /\ r.m.table_size = 2 * u
                  /\ Len(r.m.elements_indices) = Len(r.m.key_value_pairs)
                  /\ Reindexed(maps[m], r.m, heap, g)

\* C19 witness: a key is present in a table with a tombstone, and insert of
\* that key leaves a larger table without the tombstone.
C19_Witness ==
  /\ Tombstones(maps["a"]) # {}
  /\ \E k \in Present("a") : \E g \in Garbage(maps["a"]) :
       LET r == InsertItem(maps["a"], heap, g, [first |-> k, second |-> DefaultValue])
       IN  /\ r.ok
           /\ r.m.table_size > maps["a"].table_size
           /\ Tombstones(r.m) = {}

\* elements_indices_ lists, once each, exactly the slots that are not Empty.
IndexesTakenSlots(m) ==
  /\ \A i, j \in DOMAIN m.elements_indices :
       i # j => m.elements_indices[i] # m.elements_indices[j]
  /\ Range(m.elements_indices) = Occupied(m) \cup Tombstones(m)
  /\ \A i \in DOMAIN m.table \ Range(m.elements_indices) :
       m.table[i] = EmptyElement

\* C20: in every reachable state elements_indices_ holds, without
\* duplicates, exactly the positions of the slots that are not Empty; so a
\* rebuild leaves no tombstone, one used slot per pair of the list, holding
\* the key's hash modulo the new table_size, and every other slot Empty.
C20_ElementsIndices ==
  \A m \in Maps :
    /\ IndexesTakenSlots(maps[m])
    /\ \A g \in Garbage(maps[m]) :
         LET r == RebuildTableIfNeeded(maps[m], heap, g)
         IN  /\ r.ok
             /\ IndexesTakenSlots(r.m)
             /\ r.m # maps[m] =>
                  /\ Reindexed(maps[m], r.m, heap, g)
                  /\ Cardinality(EmptySlots(r.m)) =
                       r.m.table_size - Len(r.m.key_value_pairs)

\* C20 witness: elements_indices_ lists a tombstone beside the used slots,
\* and the rebuild that is due leaves only the used slots listed.
C20_Witness ==
  /\ Len(maps["a"].elements_indices) > Size(maps["a"])
  /\ Size(maps["a"]) >= 1
  /\ \E g \in Garbage(maps["a"]) :
       LET r == RebuildTableIfNeeded(maps["a"], heap, g)
       IN  /\ r.m.table_size > maps["a"].table_size
           /\ Len(r.m.elements_indices) = Size(maps["a"])

====
